---- MODULE Spec2Model ----
(***************************************************************************)
(* Model of documentation_downloader/download_docs.py.                     *)
(*                                                                         *)
(* Text (URLs, index documents, file-system paths, source names) is a      *)
(* sequence of one-character strings, so that pattern extraction, the      *)
(* substring filter, URL parsing, path joining and the sort order are      *)
(* computed character by character as the Python code computes them.       *)
(***************************************************************************)
EXTENDS Integers, Sequences, FiniteSets, TLC

(***************************************************************************)
(* Characters and strings                                                  *)
(***************************************************************************)

\* Code point of a character (Python compares str by code point).
Code(c) ==
  CASE c = " " -> 32  [] c = "#" -> 35  [] c = "(" -> 40  [] c = ")" -> 41
    [] c = "-" -> 45  [] c = "." -> 46  [] c = "/" -> 47  [] c = ":" -> 58
    [] c = ";" -> 59  [] c = "?" -> 63  [] c = "_" -> 95
    [] c = "a" -> 97  [] c = "b" -> 98  [] c = "c" -> 99  [] c = "d" -> 100
    [] c = "e" -> 101 [] c = "g" -> 103 [] c = "h" -> 104 [] c = "i" -> 105
    [] c = "l" -> 108 [] c = "m" -> 109 [] c = "n" -> 110 [] c = "o" -> 111
    [] c = "p" -> 112 [] c = "r" -> 114 [] c = "s" -> 115 [] c = "t" -> 116
    [] c = "u" -> 117 [] c = "w" -> 119

\* str.__lt__: lexicographic comparison by code point, a proper prefix first.
StrLess(s, t) ==
  LET n     == IF Len(s) < Len(t) THEN Len(s) ELSE Len(t)
      diffs == {j \in 1..n : s[j] # t[j]}
  IN  IF diffs = {} THEN Len(s) < Len(t)
      ELSE LET d == CHOOSE j \in diffs : \A h \in diffs : j <= h
           IN  Code(s[d]) < Code(t[d])

\* s[p:p+len(lit)] == lit, with p a 1-based position.
LitAt(lit, s, p) ==
  /\ p >= 1
  /\ p + Len(lit) - 1 <= Len(s)
  /\ \A j \in 1..Len(lit) : s[p + j - 1] = lit[j]

\* Python's `sub in s` on str.
StrContains(sub, s) == \E p \in 1..(Len(s) + 1) : LitAt(sub, s, p)

\* s.find(c, start) for a single character, 1-based; 0 when absent.
FindChar(c, s, start) ==
  LET hits == {p \in start..Len(s) : s[p] = c}
  IN  IF hits = {} THEN 0 ELSE CHOOSE p \in hits : \A q \in hits : p <= q

\* s.rfind(c), 1-based; 0 when absent.
RFindChar(c, s) ==
  LET hits == {p \in 1..Len(s) : s[p] = c}
  IN  IF hits = {} THEN 0 ELSE CHOOSE p \in hits : \A q \in hits : p >= q

\* s.strip('/')
RECURSIVE LStripSlash(_)
LStripSlash(s) ==
  IF s # <<>> /\ Head(s) = "/" THEN LStripSlash(Tail(s)) ELSE s

RECURSIVE RStripSlash(_)
RStripSlash(s) ==
  IF s # <<>> /\ s[Len(s)] = "/" THEN RStripSlash(SubSeq(s, 1, Len(s) - 1)) ELSE s

StripSlash(s) == RStripSlash(LStripSlash(s))

\* s.split('/'): always at least one (possibly empty) part.
RECURSIVE SplitSlash(_)
SplitSlash(s) ==
  LET p == FindChar("/", s, 1)
  IN  IF p = 0 THEN <<s>>
      ELSE <<SubSeq(s, 1, p - 1)>> \o SplitSlash(SubSeq(s, p + 1, Len(s)))

Range(f) == {f[x] : x \in DOMAIN f}

(***************************************************************************)
(* Source registry                                                         *)
(***************************************************************************)

HTTPS == <<"h","t","t","p","s",":","/","/">>
DOCS_HOST == <<"d","o","c","s",".","c","l","a","u","d","e",".","c","o","m","/">>
DOT_MD == <<".","m","d">>

CLAUDE_DOCS == <<"c","l","a","u","d","e","-","d","o","c","s">>
CLAUDE_CODE == <<"c","l","a","u","d","e","-","c","o","d","e">>

\* A pattern  <prefix>[^\s\)]+<suffix>  is the record of its two literals.
\* 'url' is the index location, kept symbolic (it is only ever requested).
SOURCES ==
  (CLAUDE_DOCS :> [url |-> "https://docs.anthropic.com/llms.txt",
                   pattern |-> [prefix |-> HTTPS \o DOCS_HOST, suffix |-> DOT_MD],
                   name |-> "Claude Docs"])
  @@
  (CLAUDE_CODE :> [url |-> "https://code.claude.com/docs/llms.txt",
                   pattern |-> [prefix |-> HTTPS, suffix |-> DOT_MD],
                   name |-> "Claude Code Docs"])

(***************************************************************************)
(* re.findall(pattern, content)                                            *)
(***************************************************************************)

\* The class [^\s\)]
InClass(c) == c \notin {" ", ")"}

\* Last position of the maximal run of class characters starting at q
\* (q - 1 when s[q] is not a class character).
RunEnd(s, q) ==
  LET stops == {j \in q..Len(s) : ~InClass(s[j])}
  IN  IF stops = {} THEN Len(s)
      ELSE (CHOOSE j \in stops : \A h \in stops : j <= h) - 1

\* Position just after the match of the pattern starting at p, 0 if none.
\* The class is greedy: among the places where the suffix can follow at
\* least one class character, the regex engine takes the rightmost.
MatchEnd(pat, s, p) ==
  IF ~LitAt(pat.prefix, s, p) THEN 0
  ELSE LET q    == p + Len(pat.prefix)
           r    == RunEnd(s, q)
           ends == {e \in (q + 1)..r : LitAt(pat.suffix, s, e)}
       IN  IF ends = {} THEN 0
           ELSE (CHOOSE e \in ends : \A f \in ends : e >= f) + Len(pat.suffix)

\* Non-overlapping matches, leftmost first, as a list: the scan resumes
\* where the previous match ended.
RECURSIVE FindAllFrom(_, _, _)
FindAllFrom(pat, s, p) ==
  LET starts == {b \in p..Len(s) : MatchEnd(pat, s, b) # 0}
  IN  IF starts = {} THEN <<>>
      ELSE LET b == CHOOSE x \in starts : \A y \in starts : x <= y
               e == MatchEnd(pat, s, b)
           IN  <<SubSeq(s, b, e - 1)>> \o FindAllFrom(pat, s, e)

FindAll(pat, s) == FindAllFrom(pat, s, 1)

(***************************************************************************)
(* fetch_urls_from_source                                                  *)
(***************************************************************************)

\* What requests.get(...) followed by raise_for_status() can do: deliver a
\* body ("ok"), raise a connection error or timeout ("neterr"), or raise
\* HTTPError on a 4xx/5xx status ("httperr").  allow_redirects only changes
\* which response the library hands back, so it is part of this choice.
ResponseKinds == {"ok", "neterr", "httperr"}

\* A filter that keeps the URLs starting with the pattern (str.startswith
\* in place of `in`).
ApplyFilterPrefix(matches, filter_pattern) ==
  IF filter_pattern # <<>>
  THEN SelectSeq(matches, LAMBDA url : LitAt(filter_pattern, url, 1))
  ELSE matches

\* `if filter_pattern:` is false for None and for the empty string; both
\* are the empty sequence here.
ApplyFilter(matches, filter_pattern) ==
  IF filter_pattern # <<>>
  THEN SelectSeq(matches, LAMBDA url : StrContains(filter_pattern, url))
  ELSE matches

\* Returns the set of (url, source_name) tuples.
fetch_urls_from_source(source_name, source_config, filter_pattern, kind, text) ==
  IF kind # "ok" THEN {}
  ELSE LET matches == ApplyFilter(FindAll(source_config.pattern, text), filter_pattern)
       IN  {<<matches[j], source_name>> : j \in 1..Len(matches)}

(***************************************************************************)
(* urllib.parse.urlparse(url).path for an https URL                        *)
(***************************************************************************)

MinPos(S, default) == IF S = {} THEN default ELSE CHOOSE p \in S : \A q \in S : p <= q

\* url[:i] for the first of the characters in cs, the whole of url if none.
CutAtFirst(url, cs) ==
  SubSeq(url, 1, MinPos({p \in 1..Len(url) : url[p] \in cs}, Len(url) + 1) - 1)

\* _splitparams: the ';' parameters of the last path segment are removed.
SplitParams(url) ==
  LET slash == RFindChar("/", url)
      i     == IF slash # 0 THEN FindChar(";", url, slash) ELSE FindChar(";", url, 1)
  IN  IF i = 0 THEN url ELSE SubSeq(url, 1, i - 1)

UrlPath(url) ==
  LET rest    == SubSeq(url, Len(HTTPS) + 1, Len(url))            \* after "https://"
      delim   == MinPos({p \in 1..Len(rest) : rest[p] \in {"/", "?", "#"}}, Len(rest) + 1)
      noloc   == SubSeq(rest, delim, Len(rest))                   \* netloc removed
      noquery == CutAtFirst(CutAtFirst(noloc, {"#"}), {"?"})
  IN  SplitParams(noquery)

(***************************************************************************)
(* os.path and the file system                                             *)
(***************************************************************************)

\* os.path.join(a, *parts) on POSIX; no part starts with '/' here because
\* every part comes out of split('/').
RECURSIVE PathJoin(_, _)
PathJoin(a, parts) ==
  IF parts = <<>> THEN a
  ELSE LET b == Head(parts)
       IN  IF b # <<>> /\ Head(b) = "/" THEN PathJoin(b, Tail(parts))
           ELSE IF a = <<>> \/ a[Len(a)] = "/" THEN PathJoin(a \o b, Tail(parts))
           ELSE PathJoin(a \o <<"/">> \o b, Tail(parts))

\* os.path.dirname(p) on POSIX.
Dirname(p) ==
  LET head == SubSeq(p, 1, RFindChar("/", p))
  IN  IF head # <<>> /\ \E j \in 1..Len(head) : head[j] # "/"
      THEN RStripSlash(head) ELSE head

\* The directory entries a relative path names, from the working directory:
\* repeated and trailing slashes add no component.
Resolve(p) == SelectSeq(SplitSlash(p), LAMBDA c : c # <<>>)

\* A file system: the directories and the regular files (with their
\* content) below the working directory, each named by its components.
EmptyFS == [dirs |-> {<<>>}, files |-> <<>>]

IsDir(fs, comps) == comps \in fs.dirs
IsFile(fs, comps) == comps \in DOMAIN fs.files

\* os.path.isfile(p) in place of os.path.exists(p)
PathExistsFileOnly(fs, p) ==
  p # <<>> /\ p[Len(p)] # "/" /\ IsFile(fs, Resolve(p))

\* os.path.isdir(p) in place of os.path.exists(p)
PathExistsDirOnly(fs, p) == p # <<>> /\ IsDir(fs, Resolve(p))

\* os.path.exists(p): a path with a trailing slash names a directory only.
PathExists(fs, p) ==
  LET comps == Resolve(p)
  IN  IF p # <<>> /\ p[Len(p)] = "/" THEN IsDir(fs, comps)
      ELSE p # <<>> /\ (IsDir(fs, comps) \/ IsFile(fs, comps))

Prefixes(comps, k) == {SubSeq(comps, 1, j) : j \in 1..k}

\* os.makedirs(p, exist_ok=True).  It raises when p is empty, when a
\* regular file stands where a directory is needed, or when the system
\* refuses a mkdir (permissions, full disk).  With refuse = TRUE the system
\* refuses the first mkdir that is needed, that of the first missing
\* directory; the mkdir of a directory that is in place ends with EEXIST,
\* which exist_ok=True forgives.
Makedirs(fs, p, refuse) ==
  LET comps    == Resolve(p)
      n        == Len(comps)
      blocked  == {j \in 1..n : IsFile(fs, SubSeq(comps, 1, j))}
      refused  == {j \in 1..n : refuse /\ ~IsDir(fs, SubSeq(comps, 1, j))}
      stops    == blocked \cup refused
      made     == IF stops = {} THEN n ELSE MinPos(stops, n) - 1
  IN  [raised |-> p = <<>> \/ stops # {},
       fs     |-> [fs EXCEPT !.dirs = @ \cup Prefixes(comps, made)]]

\* open(p, 'w') can create or truncate p: its parent is a directory and p
\* itself is not one.
CanOpenForWrite(fs, p) ==
  LET comps == Resolve(p)
  IN  /\ p # <<>> /\ p[Len(p)] # "/"
      /\ comps # <<>>
      /\ IsDir(fs, SubSeq(comps, 1, Len(comps) - 1))
      /\ ~IsDir(fs, comps)

WriteFile(fs, p, content) ==
  LET comps == Resolve(p)
  IN  [fs EXCEPT !.files = (comps :> content) @@ @]

(***************************************************************************)
(* create_directory_structure and download_file                            *)
(***************************************************************************)

\* path_parts = parsed.path.strip('/').split('/')
PathParts(url) == SplitSlash(StripSlash(UrlPath(url)))

\* path_parts in place of path_parts[:-1]
KeepAllParts(parts) == parts

\* path_parts[:-1]
AllButLast(parts) == SubSeq(parts, 1, Len(parts) - 1)

DirPath(url, base_dir, source_name) ==
  PathJoin(base_dir, <<source_name>> \o AllButLast(PathParts(url)))

\* Returns the full file path and the file system after os.makedirs, or
\* raised = TRUE when os.makedirs raised (nothing catches it here).
create_directory_structure(fs, url, base_dir, source_name, refuse) ==
  LET path_parts == PathParts(url)
      dir_path   == DirPath(url, base_dir, source_name)
      m          == Makedirs(fs, dir_path, refuse)
      filename   == path_parts[Len(path_parts)]
  IN  [raised |-> m.raised,
       fs     |-> m.fs,
       path   |-> PathJoin(dir_path, <<filename>>)]

\* What the disk does to open()/write() once the directory exists.
IoKinds == {"ok", "openfail", "writefail"}

\* download_file: both except clauses return False; a write that fails
\* midway leaves the file created by open() with part of the body.  A
\* file's content is recorded as the body it was written from.
download_file(fs, local_path, kind, io, body) ==
  IF kind # "ok" THEN [ret |-> FALSE, fs |-> fs]
  ELSE LET m == Makedirs(fs, Dirname(local_path), FALSE)
       IN  IF m.raised \/ ~CanOpenForWrite(m.fs, local_path) \/ io = "openfail"
           THEN [ret |-> FALSE, fs |-> m.fs]
           ELSE IF io = "writefail"
           THEN [ret |-> FALSE, fs |-> WriteFile(m.fs, local_path, body)]
           ELSE [ret |-> TRUE, fs |-> WriteFile(m.fs, local_path, body)]

(***************************************************************************)
(* Inputs                                                                  *)
(***************************************************************************)

SourceNames == {CLAUDE_DOCS, CLAUDE_CODE}

\* argparse default of --output
OUTPUT_DEFAULT ==
  <<"g","i","t","i","g","n","o","r","e","/",
    "d","o","w","n","l","o","a","d","e","d","_","d","o","c","s">>

SP == <<" ">>
URL_A     == HTTPS \o DOCS_HOST \o <<"a",".","m","d">>
URL_A_B   == HTTPS \o DOCS_HOST \o <<"a",".","m","d","/","b",".","m","d">>
URL_DIR_B == HTTPS \o DOCS_HOST \o <<"a","/","b",".","m","d">>
URL_OTHER == HTTPS \o <<"b","/","a",".","m","d">>

\* Index documents served to a whole run of the program.
IndexPool ==
  { URL_A_B \o SP \o <<"(">> \o URL_A \o <<")">> \o SP \o URL_A,
    URL_OTHER \o SP \o URL_A }

\* Pieces of index text for the fetch specification: a link both patterns
\* match, another one in parentheses, and a link only the any-domain
\* pattern matches, followed by text without the markdown extension.
Fragments ==
  { URL_A,
    <<"(">> \o URL_DIR_B \o <<")">>,
    URL_OTHER \o <<")">> \o HTTPS \o DOCS_HOST \o <<"a">> }

MaxFragments == 2

RECURSIVE JoinText(_)
JoinText(items) ==
  IF items = <<>> THEN <<>>
  ELSE IF Len(items) = 1 THEN items[1]
  ELSE items[1] \o SP \o JoinText(Tail(items))

FetchDocs ==
  {JoinText(items) : items \in UNION {[1..n -> Fragments] : n \in 0..MaxFragments}}

Filters == {<<>>, <<"b">>}

\* --claude-docs and --claude-code
FlagChoices == {<<FALSE, FALSE>>, <<TRUE, FALSE>>, <<FALSE, TRUE>>, <<TRUE, TRUE>>}

MaxRuns == 2

(***************************************************************************)
(* sorted(url_tuples)                                                      *)
(***************************************************************************)

\* tuple.__lt__ on (url, source_name)
TupleLess(x, y) ==
  \/ StrLess(x[1], y[1])
  \/ x[1] = y[1] /\ StrLess(x[2], y[2])

\* sorted(url_tuples, reverse=True)
RECURSIVE SortedDescending(_)
SortedDescending(S) ==
  IF S = {} THEN <<>>
  ELSE LET m == CHOOSE x \in S : \A y \in S \ {x} : TupleLess(y, x)
       IN  <<m>> \o SortedDescending(S \ {m})

RECURSIVE Sorted(_)
Sorted(S) ==
  IF S = {} THEN <<>>
  ELSE LET m == CHOOSE x \in S : \A y \in S \ {x} : TupleLess(x, y)
       IN  <<m>> \o Sorted(S \ {m})

(***************************************************************************)
(* State                                                                   *)
(***************************************************************************)

VARIABLES
  args,             \* parsed command line: filter, output, claude_docs, claude_code
  remote,           \* the index document each source serves
  fs,               \* the file system below the working directory
  run,              \* number of the current run of the program
  pc,               \* position of main()
  sources_to_fetch, \* main: the resolved list of sources
  k,                \* fetch_all_urls: position in sources
  fetch_kind,       \* how the index request of each source ended in this run
  url_tuples,       \* fetch_all_urls: all_urls, then main: url_tuples
  entries,          \* sorted(url_tuples), the list the loop iterates
  i,                \* the loop's enumerate index
  successful, failed, skipped,
  processed,        \* entries taken by the loop so far, in order
  invoked,          \* calls of download_file in this run
  slept,            \* indices after which time.sleep ran
  tally,            \* the printed summary, <<>> before it is printed
  populated,        \* every Local Target existed when the loop started
  prev_tuples,      \* url_tuples of the previous run, <<"none">> if none
  prev_end,         \* how the previous run ended, "none" if none
  call              \* a direct call of create_directory_structure

vars == <<args, remote, fs, run, pc, sources_to_fetch, k, fetch_kind, url_tuples,
          entries, i, successful, failed, skipped, processed, invoked, slept,
          tally, populated, prev_tuples, prev_end, call>>

NoCall == [url |-> <<>>, source_name |-> <<>>, done |-> FALSE, raised |-> FALSE,
           path |-> <<>>, existed |-> FALSE]

RunStart ==
  /\ pc = "start"
  /\ sources_to_fetch = <<>>
  /\ k = 1
  /\ fetch_kind = [s \in SourceNames |-> "none"]
  /\ url_tuples = {}
  /\ entries = <<>>
  /\ i = 1
  /\ successful = 0 /\ failed = 0 /\ skipped = 0
  /\ processed = <<>>
  /\ invoked = <<>>
  /\ slept = <<>>
  /\ tally = <<>>
  /\ populated = FALSE

\* Lines 191-201: the sources the flags select.
ResolveSources(a) ==
  IF a.claude_docs \/ a.claude_code
  THEN (IF a.claude_docs THEN <<CLAUDE_DOCS>> ELSE <<>>)
       \o (IF a.claude_code THEN <<CLAUDE_CODE>> ELSE <<>>)
  ELSE <<CLAUDE_DOCS, CLAUDE_CODE>>

\* The command line and the index documents of the requested sources (the
\* index of a source that is not requested is never read: it is empty).
InitWith(docs, filters, flags) ==
  /\ args \in {[filter |-> f, output |-> OUTPUT_DEFAULT,
                claude_docs |-> fl[1], claude_code |-> fl[2]] :
               f \in filters, fl \in flags}
  /\ remote \in [SourceNames -> docs \cup {<<>>}]
  /\ \A s \in SourceNames :
        IF s \in Range(ResolveSources(args)) THEN remote[s] \in docs ELSE remote[s] = <<>>
  /\ fs = EmptyFS
  /\ run = 1
  /\ prev_tuples = <<"none">>
  /\ prev_end = "none"
  /\ call = NoCall
  /\ RunStart

Init == InitWith(IndexPool, {<<>>}, FlagChoices \ {<<TRUE, TRUE>>})

InitFetch == InitWith(FetchDocs, Filters, FlagChoices \ {<<FALSE, FALSE>>})

(***************************************************************************)
(* main() and fetch_all_urls                                               *)
(***************************************************************************)

History == <<processed, invoked, slept, tally, populated, prev_tuples, prev_end>>
Counters == <<successful, failed, skipped>>

\* Lines 189-211: parse_args, the resolution of the sources, and the call
\* of fetch_all_urls up to its first loop test.
MainStart ==
  /\ pc = "start"
  /\ sources_to_fetch' = ResolveSources(args)
  /\ url_tuples' = {}
  /\ k' = 1
  /\ pc' = "fetch"
  /\ UNCHANGED <<args, remote, fs, run, fetch_kind, entries, i, Counters, History, call>>

\* all_urls = urls in place of all_urls.update(urls)
UpdateReplace(all_urls, urls) == urls

\* A collection keyed on the URL alone: a URL already held is not added.
UpdateByUrl(all_urls, urls) ==
  all_urls \cup {t \in urls : \A h \in all_urls : h[1] # t[1]}

\* all_urls.update(urls)
Update(all_urls, urls) == all_urls \cup urls

\* One iteration of the loop of fetch_all_urls: the index request of the
\* next source ends in one of ResponseKinds.
FetchSource(kind) ==
  /\ pc = "fetch"
  /\ k <= Len(sources_to_fetch)
  /\ LET source_name == sources_to_fetch[k]
     IN  IF source_name \in DOMAIN SOURCES
         THEN /\ url_tuples' = Update(url_tuples,
                     fetch_urls_from_source(source_name, SOURCES[source_name],
                                            args.filter, kind, remote[source_name]))
              /\ fetch_kind' = [fetch_kind EXCEPT ![source_name] = kind]
         ELSE UNCHANGED <<url_tuples, fetch_kind>>
  /\ k' = k + 1
  /\ UNCHANGED <<args, remote, fs, run, pc, sources_to_fetch, entries, i, Counters,
                 History, call>>

\* create_directory_structure(url, args.output, source_name) for an entry
EntryTarget(f, e, refuse) == create_directory_structure(f, e[1], args.output, e[2], refuse)

\* Something (a file or a directory) is at the Local Target of entry e.
TargetPresent(f, e) ==
  LET c == EntryTarget(f, e, FALSE)
  IN  /\ ~c.raised
      /\ (IsFile(f, Resolve(c.path)) \/ IsDir(f, Resolve(c.path)))

\* Lines 213-225: fetch_all_urls has returned; the early exit on an empty
\* set, os.makedirs(args.output) and the counters.
MainAfterFetch(refuse) ==
  /\ pc = "fetch"
  /\ k > Len(sources_to_fetch)
  /\ IF url_tuples = {}
     THEN /\ pc' = "no_urls"
          /\ UNCHANGED <<fs, entries, i, Counters, populated>>
     ELSE LET m == Makedirs(fs, args.output, refuse)
          IN  /\ fs' = m.fs
              /\ IF m.raised
                 THEN /\ pc' = "crashed"
                      /\ UNCHANGED <<entries, i, Counters, populated>>
                 ELSE /\ pc' = "loop"
                      /\ entries' = Sorted(url_tuples)
                      /\ i' = 1
                      /\ successful' = 0 /\ failed' = 0 /\ skipped' = 0
                      /\ populated' = \A e \in url_tuples : TargetPresent(m.fs, e)
  /\ fetch_kind' = [s \in SourceNames |-> "none"]   \* fetch_all_urls is over
  /\ UNCHANGED <<args, remote, run, sources_to_fetch, k, url_tuples,
                 processed, invoked, slept, tally, prev_tuples, prev_end, call>>

\* The loop without `continue`: a skipped entry falls through to the pause.
AfterSkipPause == "sleep"

\* Line 237: `continue` takes the loop to its next entry, past the pause.
AfterSkip == "loop"

\* The loop without its `else: failed += 1`.
DownloadCountsNoFail(ret, s, f) == IF ret THEN <<s + 1, f>> ELSE <<s, f>>

\* Lines 240-243: the counters after download_file returned ret.
DownloadCounts(ret, s, f) == IF ret THEN <<s + 1, f>> ELSE <<s, f + 1>>

\* Lines 227-243: one iteration of the download loop up to the pause.
\* refuse is what the system does to os.makedirs, kind what the download
\* request does, io what the disk does to the write.
ProcessEntry(refuse, kind, io) ==
  /\ pc = "loop"
  /\ i <= Len(entries)
  /\ LET e == entries[i]
         c == EntryTarget(fs, e, refuse)
         body == run   \* what the remote serves for the url during this run
     IN  /\ processed' = Append(processed, e)
         /\ IF c.raised
            THEN \* the exception leaves main(): traceback, no summary
                 /\ pc' = "crashed"
                 /\ fs' = c.fs
                 /\ UNCHANGED <<i, Counters, invoked>>
            ELSE IF PathExists(c.fs, c.path)
            THEN \* skipped += 1; continue
                 /\ skipped' = skipped + 1
                 /\ pc' = AfterSkip
                 /\ i' = IF AfterSkip = "loop" THEN i + 1 ELSE i
                 /\ fs' = c.fs
                 /\ UNCHANGED <<successful, failed, invoked>>
            ELSE LET d == download_file(c.fs, c.path, kind, io, body)
                 IN  /\ fs' = d.fs
                     /\ invoked' = Append(invoked,
                            [index |-> i, ret |-> d.ret,
                             had_file |-> IsFile(c.fs, Resolve(c.path))])
                     /\ successful' = DownloadCounts(d.ret, successful, failed)[1]
                     /\ failed' = DownloadCounts(d.ret, successful, failed)[2]
                     /\ pc' = "sleep"
                     /\ UNCHANGED <<i, skipped>>
  /\ UNCHANGED <<args, remote, run, sources_to_fetch, k, fetch_kind, url_tuples,
                 entries, slept, tally, populated, prev_tuples, prev_end, call>>

\* Line 246: time.sleep(0.5), then the loop takes the next entry.
Sleep ==
  /\ pc = "sleep"
  /\ slept' = Append(slept, i)
  /\ i' = i + 1
  /\ pc' = "loop"
  /\ UNCHANGED <<args, remote, fs, run, sources_to_fetch, k, fetch_kind, url_tuples,
                 entries, Counters, processed, invoked, tally, populated,
                 prev_tuples, prev_end, call>>

\* Lines 248-253: the summary is printed and main() returns.
Summarize ==
  /\ pc = "loop"
  /\ i > Len(entries)
  /\ tally' = [successful |-> successful, skipped |-> skipped, failed |-> failed,
               output |-> args.output]
  /\ pc' = "done"
  /\ UNCHANGED <<args, remote, fs, run, sources_to_fetch, k, fetch_kind, url_tuples,
                 entries, i, Counters, processed, invoked, slept, populated,
                 prev_tuples, prev_end, call>>

(***************************************************************************)
(* The environment: interruption and re-running                            *)
(***************************************************************************)

\* The process is killed between two steps.
Interrupt ==
  /\ pc \in {"fetch", "loop", "sleep"}
  /\ pc' = "killed"
  /\ UNCHANGED <<args, remote, fs, run, sources_to_fetch, k, fetch_kind, url_tuples,
                 entries, i, Counters, History, call>>

\* The process is killed inside download_file while the body is being
\* written: the file exists with partial content.
InterruptWrite ==
  /\ pc = "loop"
  /\ i <= Len(entries)
  /\ LET e == entries[i]
         c == EntryTarget(fs, e, FALSE)
     IN  /\ ~c.raised
         /\ ~PathExists(c.fs, c.path)
         /\ CanOpenForWrite(c.fs, c.path)
         /\ fs' = WriteFile(c.fs, c.path, run)
         /\ processed' = Append(processed, e)
         /\ invoked' = Append(invoked,
                [index |-> i, ret |-> FALSE,   \* the call never returns
                 had_file |-> IsFile(c.fs, Resolve(c.path))])
  /\ pc' = "killed"
  /\ UNCHANGED <<args, remote, run, sources_to_fetch, k, fetch_kind, url_tuples,
                 entries, i, Counters, slept, tally, populated, prev_tuples, prev_end, call>>

\* The program is started again with the same command line on the same
\* output root; only the files survive.
Rerun ==
  /\ pc \in {"done", "no_urls", "crashed", "killed"}
  /\ run < MaxRuns
  /\ run' = run + 1
  /\ prev_tuples' = url_tuples
  /\ prev_end' = pc
  /\ pc' = "start"
  /\ sources_to_fetch' = <<>>
  /\ k' = 1
  /\ fetch_kind' = [s \in SourceNames |-> "none"]
  /\ url_tuples' = {}
  /\ entries' = <<>>
  /\ i' = 1
  /\ successful' = 0 /\ failed' = 0 /\ skipped' = 0
  /\ processed' = <<>>
  /\ invoked' = <<>>
  /\ slept' = <<>>
  /\ tally' = <<>>
  /\ populated' = FALSE
  /\ UNCHANGED <<args, remote, fs, call>>

Next ==
  \/ MainStart
  \/ \E kind \in ResponseKinds : FetchSource(kind)
  \/ \E refuse \in BOOLEAN : MainAfterFetch(refuse)
  \/ \E refuse \in BOOLEAN, kind \in ResponseKinds, io \in IoKinds :
        ProcessEntry(refuse, kind, io)
  \/ Sleep
  \/ Summarize
  \/ Interrupt
  \/ InterruptWrite
  \/ Rerun

Spec == Init /\ [][Next]_vars

NextFetch ==
  \/ MainStart
  \/ \E kind \in ResponseKinds : FetchSource(kind)

SpecFetch == InitFetch /\ [][NextFetch]_vars

(***************************************************************************)
(* Direct calls of create_directory_structure                              *)
(***************************************************************************)

PathAlphabet == {"/", "a", "?", ";"}

MaxPathLen == 5

\* What follows "https://a" in the URL of a direct call.
UrlTails == UNION {[1..n -> PathAlphabet] : n \in 0..MaxPathLen}

\* A tree in which a regular file named "a" lies directly below the
\* directory of the source.
BlockedFS(source_name) ==
  LET root == PathJoin(OUTPUT_DEFAULT, <<source_name>>)
  IN  WriteFile(Makedirs(EmptyFS, root, FALSE).fs, PathJoin(root, <<<<"a">>>>), 0)

InitPath ==
  /\ args = [filter |-> <<>>, output |-> OUTPUT_DEFAULT,
             claude_docs |-> FALSE, claude_code |-> FALSE]
  /\ remote = [s \in SourceNames |-> <<>>]
  /\ \E tail \in UrlTails, s \in SourceNames :
        /\ call = [NoCall EXCEPT !.url = HTTPS \o <<"a">> \o tail, !.source_name = s]
        /\ fs \in {EmptyFS, BlockedFS(s)}
  /\ run = 1
  /\ prev_tuples = <<"none">>
  /\ prev_end = "none"
  /\ RunStart

\* create_directory_structure(call.url, args.output, call.source_name) is
\* called on the current file system; 'existed' records whether its
\* directory was already there.
CallCreateDirectoryStructure(refuse) ==
  /\ pc = "start"
  /\ call.url # <<>>
  /\ LET c == create_directory_structure(fs, call.url, args.output, call.source_name, refuse)
     IN  /\ fs' = c.fs
         /\ call' = [call EXCEPT
                       !.done = TRUE,
                       !.raised = c.raised,
                       !.path = IF c.raised THEN <<>> ELSE c.path,
                       !.existed = IsDir(fs, Resolve(DirPath(call.url, args.output,
                                                             call.source_name)))]
  /\ UNCHANGED <<args, remote, run, pc, sources_to_fetch, k, fetch_kind, url_tuples,
                 entries, i, Counters, History>>

NextPath == \E refuse \in BOOLEAN : CallCreateDirectoryStructure(refuse)

SpecPath == InitPath /\ [][NextPath]_vars

(***************************************************************************)
(* Properties of a run (specification Spec)                               *)
(***************************************************************************)

InLoop == pc \in {"loop", "sleep", "done"}

Indices(calls) == [j \in 1..Len(calls) |-> calls[j].index]

\* C1: a run started on an output root in which every Local Target of the
\* aggregated links already exists, aggregating the same set of links as
\* the run before it, never invokes download_file, counts no success and no
\* failure, cannot be ended by an exception, and prints skipped = number of
\* aggregated links.
C1_RerunIsIdempotent ==
  (run > 1 /\ populated /\ prev_tuples = url_tuples) =>
     /\ pc # "crashed"
     /\ invoked = <<>>
     /\ successful = 0 /\ failed = 0
     /\ pc = "done" => /\ tally.successful = 0 /\ tally.failed = 0
                       /\ tally.skipped = Cardinality(url_tuples)

C1_Witness ==
  /\ run > 1 /\ populated /\ prev_tuples = url_tuples /\ prev_end = "done"
  /\ pc = "done"
  /\ tally.skipped = Cardinality(url_tuples)
  /\ Cardinality(url_tuples) >= 2

\* C2: once the download loop has taken an entry, no error ends the process
\* before the summary: main() is never left by an exception.
C2_NeverAbortsInLoop == ~(pc = "crashed" /\ processed # <<>>)

\* C4: download_file is called for an entry only when no file is at the
\* entry's Local Target at that moment, and no step of any run changes or
\* removes a file that is already present.
C4_NoRedownload ==
  [][ /\ invoked' # invoked /\ invoked' # <<>> => ~invoked'[Len(invoked')].had_file
      /\ \A f \in DOMAIN fs.files :
           f \in DOMAIN fs'.files /\ fs'.files[f] = fs.files[f] ]_vars

C4_Witness ==
  /\ run > 1 /\ prev_end = "killed"
  /\ pc = "done"
  /\ skipped >= 1
  /\ successful >= 1
  /\ \E f \in DOMAIN fs.files : fs.files[f] < run

\* C5: the loop takes the aggregated links in strictly increasing order of
\* (url, source name), each link at most once and none before a smaller
\* one, and at the summary it has taken all of them.
C5_SortedOrder ==
  /\ \A j \in 1..Len(processed) :
        /\ processed[j] \in url_tuples
        /\ \A t \in url_tuples :
              (StrLess(t[1], processed[j][1])
                 \/ (t[1] = processed[j][1] /\ StrLess(t[2], processed[j][2])))
              => \E h \in 1..(j - 1) : processed[h] = t
  /\ \A j \in 1..(Len(processed) - 1) :
        \/ StrLess(processed[j][1], processed[j + 1][1])
        \/ /\ processed[j][1] = processed[j + 1][1]
           /\ StrLess(processed[j][2], processed[j + 1][2])
  /\ pc = "done" => /\ Range(processed) = url_tuples
                    /\ Len(processed) = Cardinality(url_tuples)

C5_Witness ==
  /\ pc = "done"
  /\ Len(processed) >= 4
  /\ \E j \in 1..(Len(processed) - 1) :
        /\ processed[j][1] = processed[j + 1][1]
        /\ processed[j][2] # processed[j + 1][2]

\* C9: the pauses taken so far are exactly the entries for which
\* download_file was called, in order; right after such a call the pause is
\* the next step of the loop, and an entry that was skipped has no pause.
C9_PauseFollowsAttempt ==
  /\ pc \in {"loop", "done"} =>
        /\ slept = Indices(invoked)
        /\ Len(slept) = successful + failed
        /\ Len(processed) - Len(slept) = skipped
  /\ pc = "sleep" =>
        /\ Indices(invoked) = Append(slept, i)
        /\ processed # <<>> /\ processed[Len(processed)] = entries[i]

C9_Witness ==
  /\ pc = "done"
  /\ skipped >= 1
  /\ successful >= 1
  /\ failed >= 1
  /\ Len(slept) = 2

\* C10: in the loop the three counters add up to the number of entries
\* processed so far: successful counts the calls of download_file that
\* returned true, failed those that returned false, skipped the entries
\* for which it was not called; at the summary the sum is the number of
\* aggregated links.
C10_CounterAccounting ==
  /\ pc = "loop" => successful + skipped + failed = i - 1
  /\ pc = "sleep" => successful + skipped + failed = i
  /\ InLoop => /\ successful + skipped + failed = Len(processed)
               /\ successful = Cardinality({j \in 1..Len(invoked) : invoked[j].ret})
               /\ failed = Cardinality({j \in 1..Len(invoked) : ~invoked[j].ret})
               /\ skipped = Len(processed) - Len(invoked)
  /\ pc = "done" => tally.successful + tally.skipped + tally.failed
                       = Cardinality(url_tuples)

C10_Witness ==
  /\ pc = "done"
  /\ tally.successful >= 1 /\ tally.skipped >= 1 /\ tally.failed >= 1

(***************************************************************************)
(* Properties of the aggregation (specification SpecFetch)                *)
(***************************************************************************)

\* The sources whose iteration of fetch_all_urls is over.
Fetched == {sources_to_fetch[j] : j \in 1..(k - 1)}

FetchedOk == {s \in Fetched : fetch_kind[s] = "ok"}

\* The list of matches the index document of source s holds, after filter f.
MatchList(s, f) == ApplyFilter(FindAll(SOURCES[s].pattern, remote[s]), f)

LinksServed(s, f) == {<<u, s>> : u \in Range(MatchList(s, f))}

LinksOf(s) == {t \in url_tuples : t[2] = s}

\* C3: a source whose index request fails (connection error or error
\* status) contributes no link and does not stop the loop: every requested
\* source is fetched, and the aggregated set is the union of the links of
\* the sources whose request succeeded.
C3_FetchFailureIsolated ==
  pc = "fetch" =>
     /\ \A s \in Fetched : fetch_kind[s] \in ResponseKinds
     /\ \A s \in Fetched \ FetchedOk : LinksOf(s) = {}
     /\ url_tuples = UNION {LinksServed(s, args.filter) : s \in FetchedOk}
     /\ k > Len(sources_to_fetch) => Fetched = Range(sources_to_fetch)

C3_Witness ==
  /\ pc = "fetch" /\ k > Len(sources_to_fetch)
  /\ sources_to_fetch = <<CLAUDE_DOCS, CLAUDE_CODE>>
  /\ fetch_kind[CLAUDE_DOCS] = "httperr"
  /\ LinksServed(CLAUDE_DOCS, args.filter) # {}
  /\ fetch_kind[CLAUDE_CODE] = "ok"
  /\ url_tuples # {}

\* C6: a URL matched in the index documents of both sources gives two
\* links, one per source, and a URL matched several times in one index
\* document gives one link for that source.
C6_LinkIdentityIsThePair ==
  (pc = "fetch" /\ FetchedOk = SourceNames) =>
     /\ \A u \in Range(MatchList(CLAUDE_DOCS, args.filter))
              \cap Range(MatchList(CLAUDE_CODE, args.filter)) :
           /\ <<u, CLAUDE_DOCS>> \in url_tuples
           /\ <<u, CLAUDE_CODE>> \in url_tuples
           /\ Cardinality({t \in url_tuples : t[1] = u}) = 2
     /\ \A s \in SourceNames :
           Cardinality(LinksOf(s)) = Cardinality(Range(MatchList(s, args.filter)))

C6_Witness ==
  /\ pc = "fetch" /\ FetchedOk = SourceNames
  /\ \E u \in Range(MatchList(CLAUDE_DOCS, args.filter)) :
        /\ u \in Range(MatchList(CLAUDE_CODE, args.filter))
        /\ Cardinality({t \in url_tuples : t[1] = u}) = 2
  /\ \E s \in SourceNames :
        Len(MatchList(s, args.filter)) > Cardinality(LinksOf(s))

\* C7: with a non-empty filter, the links a source returns are those of
\* the unfiltered extraction whose URL contains the filter: none is new,
\* each contains the filter, and none that contains it is dropped.
C7_FilterSound ==
  (pc = "fetch" /\ args.filter # <<>>) =>
     \A s \in FetchedOk :
        /\ LinksOf(s) \subseteq LinksServed(s, <<>>)
        /\ \A t \in LinksOf(s) : StrContains(args.filter, t[1])
        /\ \A t \in LinksServed(s, <<>>) :
              StrContains(args.filter, t[1]) => t \in LinksOf(s)

C7_Witness ==
  /\ pc = "fetch" /\ args.filter # <<>>
  /\ \E s \in FetchedOk :
        /\ LinksOf(s) # {}
        /\ LinksOf(s) # LinksServed(s, <<>>)
        /\ \E t \in LinksOf(s) : ~LitAt(args.filter, t[1], 1)

(***************************************************************************)
(* Properties of the path mapping (specification SpecPath)                *)
(***************************************************************************)

\* The text after the last '/' of a path.
Basename(p) == SubSeq(p, RFindChar("/", p) + 1, Len(p))

\* The non-empty segments of the URL's path.
Segments(url) == Resolve(UrlPath(url))

\* C8: when the URL's path has a segment and create_directory_structure
\* returns, the returned path ends in the path's last segment, its parent
\* is the directory base_dir/source_name/<the segments before the last>,
\* and that directory exists; a call that finds the directory in place
\* does not raise.
C8_PathMapping ==
  /\ (call.done /\ ~call.raised /\ Segments(call.url) # <<>>) =>
        LET segs   == Segments(call.url)
            parent == Resolve(args.output) \o <<call.source_name>>
                         \o SubSeq(segs, 1, Len(segs) - 1)
        IN  /\ Basename(call.path) = segs[Len(segs)]
            /\ Resolve(Dirname(call.path)) = parent
            /\ IsDir(fs, parent)
  /\ (call.done /\ call.existed) => ~call.raised

C8_Witness ==
  /\ call.done /\ ~call.raised /\ call.existed
  /\ Len(Segments(call.url)) >= 2
  /\ Len(PathParts(call.url)) > Len(Segments(call.url))

====
